---- MODULE Spec2Model ----
(***************************************************************************)
(* A model of warning_window: the ww server (src/ww/src/main.rs) and the   *)
(* client library (src/api/src/lib.rs).                                    *)
(*                                                                         *)
(* Bytes are naturals 0..255.  A Rust String is represented by its UTF-8   *)
(* bytes (String::len is the byte length), Option<String> by a record      *)
(* [some, val], a SocketAddr by the bytes of its to_string().  Timestamps  *)
(* of log items are not modelled.                                          *)
(***************************************************************************)
EXTENDS Integers, Sequences, FiniteSets, TLC

\* ------------------------------------------------------------------ bounds
\* frames written by the client in one run of SpecConn and of SpecUi
MaxFrames == 2
\* frames written by the two clients together in one run of Spec
MaxSysFrames == 2
\* characters in the short texts SpecCodec encodes
MaxChars == 2
\* frames written by the two clients together in one run of SpecPar
MaxParFrames == 2
\* accepts that fail in one run of SpecConn
MaxAcceptErrors == 2
\* frame numbers after the first with which render_alert_border is called
MaxBorderFrames == 6
\* frames the client writes in one run of SpecFrames
MaxBackFrames == 3
\* frames the client writes in one run of SpecNames
MaxNameFrames == 3
\* columns and rows a terminal of SpecOrigin has beyond the least that
\* render() accepts in the state None
MaxOriginMargin == 5

\* ------------------------------------------------------- program constants
\* Session::send: `if msg.len() > 254`
MAX_MSG_LEN == 254
\* update: `if name.len() < 25`
NAME_LIMIT == 25

\* --------------------------------------------------------------- utilities
Min(a, b) == IF a < b THEN a ELSE b
Max(a, b) == IF a > b THEN a ELSE b
Take(s, n) == SubSeq(s, 1, n)
Drop(s, n) == SubSeq(s, n + 1, Len(s))
Rep(x, n) == [i \in 1..n |-> x]
\* `as u8` / u8 arithmetic of a release build
u8(n) == n % 256

None == [some |-> FALSE, val |-> <<>>]
Some(s) == [some |-> TRUE, val |-> s]

\* -------------------------------------------------- String::from_utf8_lossy
IsCont(x) == x >= 128 /\ x <= 191
\* the range of the byte that may follow lead byte `l` of a 3- or 4-byte char
SecondOk(l, x) ==
    CASE l = 224 -> x >= 160 /\ x <= 191
      [] l = 237 -> x >= 128 /\ x <= 159
      [] l = 240 -> x >= 144 /\ x <= 191
      [] l = 244 -> x >= 128 /\ x <= 143
      [] OTHER -> IsCont(x)
\* bytes a character with lead byte l has; 0 if l cannot start a character
Utf8Width(l) ==
    CASE l < 128 -> 1
      [] l >= 194 /\ l <= 223 -> 2
      [] l >= 224 /\ l <= 239 -> 3
      [] l >= 240 /\ l <= 244 -> 4
      [] OTHER -> 0
\* b[s + j] continues the character that b[s] starts
Utf8Follows(b, s, j) ==
    /\ s + j <= Len(b)
    /\ j < Utf8Width(b[s])
    /\ IF j = 1 THEN SecondOk(b[s], b[s + 1]) ELSE IsCont(b[s + j])
\* bytes the decoder takes in one step at b[s]: a whole character, or the
\* longest prefix of one (which it replaces by U+FFFD)
Utf8Taken(b, s) ==
    IF ~Utf8Follows(b, s, 1) THEN 1
    ELSE IF ~Utf8Follows(b, s, 2) THEN 2
    ELSE IF ~Utf8Follows(b, s, 3) THEN 3
    ELSE 4
\* b[i] is where a step of the decoder begins: no step that begins at most
\* three bytes earlier takes it (a byte that continues nothing begins one)
Utf8Starts(b, i) ==
    \A k \in 1..3 : i - k >= 1 => ~(\A j \in 1..k : Utf8Follows(b, i - k, j))
\* U+FFFD in UTF-8
REPLACEMENT == <<239, 191, 189>>
\* what the decoder appends for b[i]
Utf8Out(b, i) ==
    IF ~Utf8Starts(b, i) THEN <<>>
    ELSE IF Utf8Width(b[i]) > 0 /\ Utf8Taken(b, i) = Utf8Width(b[i])
    THEN SubSeq(b, i, i + Utf8Width(b[i]) - 1)
    ELSE REPLACEMENT

RECURSIVE Utf8Concat(_, _, _)
Utf8Concat(b, lo, hi) ==
    IF lo > hi THEN <<>>
    ELSE IF lo = hi THEN Utf8Out(b, lo)
    ELSE LET mid == (lo + hi) \div 2
         IN Utf8Concat(b, lo, mid) \o Utf8Concat(b, mid + 1, hi)

\* String::from_utf8_lossy(v).to_string(): well-formed characters are kept,
\* every ill-formed sequence becomes one U+FFFD
from_utf8_lossy(b) == Utf8Concat(b, 1, Len(b))

\* ------------------------------------------------------------- PacketType
PacketTypes == {"Info", "Warn", "Alert", "Name"}

\* from_type_number with the tags of Warn and Alert exchanged
from_type_number_swapped(type_number) ==
    CASE type_number = 2 -> [ok |-> TRUE, val |-> "Info"]
      [] type_number = 3 -> [ok |-> TRUE, val |-> "Alert"]
      [] type_number = 4 -> [ok |-> TRUE, val |-> "Warn"]
      [] type_number = 5 -> [ok |-> TRUE, val |-> "Name"]
      [] OTHER -> [ok |-> FALSE, val |-> "Invalid packet type."]

from_type_number(type_number) ==
    CASE type_number = 2 -> [ok |-> TRUE, val |-> "Info"]
      [] type_number = 3 -> [ok |-> TRUE, val |-> "Warn"]
      [] type_number = 4 -> [ok |-> TRUE, val |-> "Alert"]
      [] type_number = 5 -> [ok |-> TRUE, val |-> "Name"]
      [] OTHER -> [ok |-> FALSE, val |-> "Invalid packet type."]

to_type_number(t) ==
    CASE t = "Info" -> 2
      [] t = "Warn" -> 3
      [] t = "Alert" -> 4
      [] t = "Name" -> 5

\* ------------------------------------------------- results of handle_packet
NoPacket == [packet_type |-> "none", text |-> None]
Ok(p) == [ok |-> TRUE, packet |-> p, err |-> ""]
Err(e) == [ok |-> FALSE, packet |-> NoPacket, err |-> e]

\* --------------------------------------------- results of a socket read/write
\* Ok(n) with n bytes transferred, or Err(e)
IoErr == [err |-> TRUE, n |-> 0]
IoOk(n) == [err |-> FALSE, n |-> n]
\* Err of kind TimedOut or WouldBlock: the read timeout of the socket ran out
IoTimedOut == [err |-> TRUE, n |-> 0, timed_out |-> TRUE]

\* a read timeout that is never cleared
read_timeout_kept(pc) == TRUE

\* Whether the socket has a read timeout while its handler is at pc:
\* handle_association sets 200 ms before its read and sets None before it
\* returns Ok.
read_timeout(pc) == pc = "handshaking"

\* ------------------------------------------------ api: Session::send
\* send_num_bytes without the byte of the packet type
send_num_bytes_text_only(msg) == u8(Len(msg))

\* `buf[0] = msg.len() as u8 + 1; let num_bytes = buf[0] as usize;`
send_num_bytes(msg) == u8(u8(Len(msg)) + 1)

\* The bytes Session::send hands to connection.write, or an error before
\* any write: buf[0] = num_bytes, buf[1] = packet_type, buf[2..=num_bytes]
\* = the text, and buf[0..num_bytes + 1] is written.
send(packet_type, msg) ==
    IF Len(msg) > MAX_MSG_LEN
    THEN [ok |-> FALSE, bytes |-> <<>>]
    ELSE LET num_bytes == send_num_bytes(msg)
             buf == <<num_bytes, packet_type>>
                      \o [i \in 1..(num_bytes - 1) |-> msg[i]]
         IN [ok |-> TRUE, bytes |-> Take(buf, num_bytes + 1)]

\* ------------------------------------------------ ww: handle_association
\* not_association_request with || for &&
not_association_request_or(buf) == buf[1] # 1 \/ buf[2] # 1

\* `if buf[0] != 1 && buf[1] != 1 { return Err(..) }`
not_association_request(buf) == buf[1] # 1 /\ buf[2] # 1

ASSOCIATION_ACCEPT == <<1, 1>>

\* rd: result of the read into the 2-byte buffer, buf: the bytes it read,
\* wr: result of writing the accept.  Yields whether the association
\* succeeded and the bytes that went out to the client.
handle_association(rd, buf, wr) ==
    IF rd.err \/ rd.n = 0 THEN [ok |-> FALSE, wrote |-> <<>>]
    ELSE IF rd.n # 2 THEN [ok |-> FALSE, wrote |-> <<>>]
    ELSE IF not_association_request(buf) THEN [ok |-> FALSE, wrote |-> <<>>]
    ELSE IF wr.err \/ wr.n = 0 THEN [ok |-> FALSE, wrote |-> <<>>]
    ELSE IF wr.n # 2 THEN [ok |-> FALSE, wrote |-> Take(ASSOCIATION_ACCEPT, wr.n)]
    ELSE [ok |-> TRUE, wrote |-> ASSOCIATION_ACCEPT]

\* ------------------------------------------------------ ww: handle_packet
\* First read (one byte) and the length check.  b0 is the byte read.
handle_packet_len(rd, b0) ==
    IF rd.err THEN [ok |-> FALSE, nbip |-> 0, err |-> "io"]
    ELSE IF rd.n = 0
    THEN [ok |-> FALSE, nbip |-> 0, err |-> "Client closed the connection."]
    ELSE LET num_bytes_in_packet == b0 + 1 IN
         IF num_bytes_in_packet = 1
         THEN [ok |-> FALSE, nbip |-> 1,
               err |-> "Invalid number of bytes declared by packet header."]
         ELSE [ok |-> TRUE, nbip |-> num_bytes_in_packet, err |-> ""]

\* missing_required_text with the test of the Name arm left out
missing_required_text_info_only(packet_type, packet_text) ==
    packet_type = "Info" /\ packet_text = None

\* `match packet_type { Info => if packet_text == None .., Name => .. }`
missing_required_text(packet_type, packet_text) ==
    packet_type \in {"Info", "Name"} /\ packet_text = None

\* a second read into all of buf after the length byte
body_read_max_whole_buf(num_bytes_in_packet) == 255

\* the second read is into `buf[1..num_bytes_in_packet]`: the most bytes it
\* can return
body_read_max(num_bytes_in_packet) == num_bytes_in_packet - 1

\* Second read and decoding.  buf holds the length byte followed by the
\* rd.n bytes the second read returned.
handle_packet_body(rd, buf, num_bytes_in_packet) ==
    IF rd.err THEN Err("io")
    ELSE IF num_bytes_in_packet # rd.n + 1
    THEN Err("Num of bytes read does not match num of bytes declared in header by client.")
    ELSE LET pt == from_type_number(buf[2]) IN
         IF ~pt.ok THEN Err(pt.val)
         ELSE LET packet_text ==
                    IF num_bytes_in_packet - 2 > 0
                    THEN Some(from_utf8_lossy(SubSeq(buf, 3, num_bytes_in_packet)))
                    ELSE None
              IN IF missing_required_text(pt.val, packet_text)
                 THEN Err(IF pt.val = "Info"
                          THEN "Client sent INFO packet without text."
                          ELSE "Client sent NAME packet without text.")
                 ELSE Ok([packet_type |-> pt.val, text |-> packet_text])

\* ------------------------------------------------------- the mpsc channel
\* tx_send_blocks of a channel with room for one item
tx_send_blocks_when_full(ch) == Len(ch) >= 1

\* `channel::<LogItem>()` has no capacity: tx.send never waits for room
tx_send_blocks(ch) == FALSE

\* try_recv that finds the channel empty whatever it holds
try_recv_never(ch) == [item |-> <<>>, rest |-> ch]

\* try_recv that takes the newest item
try_recv_newest(ch) ==
    IF ch = <<>> THEN [item |-> <<>>, rest |-> ch]
    ELSE [item |-> <<ch[Len(ch)]>>, rest |-> SubSeq(ch, 1, Len(ch) - 1)]

\* rx.try_recv(): the oldest item of the channel if there is one (a sequence
\* of at most one item), and the channel it leaves; it never waits
try_recv(ch) ==
    IF ch = <<>> THEN [item |-> <<>>, rest |-> ch]
    ELSE [item |-> <<Head(ch)>>, rest |-> Tail(ch)]

\* rx.try_recv() is Err(TryRecvError::Disconnected): the channel is empty
\* and every Sender of it has been dropped
try_recv_disconnected(ch, senders) == ch = <<>> /\ senders = 0

\* after_accept_error that leaves the loop
after_accept_error_stops(pc) == "stopped"

\* main: the connection manager after listener.incoming() yielded Err(e):
\* the error is written to the log and the `for` loop goes on
after_accept_error(pc) == pc

\* ---------------------------------------------------------------- LogItem
PacketLogItem(a, p) == [kind |-> "Packet", peer_addr |-> a, packet |-> p]
ConnectLogItem(a) == [kind |-> "Connect", peer_addr |-> a]
DisconnectLogItem(a) == [kind |-> "Disconnect", peer_addr |-> a]

\* --------------------------------------------------- ww: handle_connection
\* after_association with the error handled as a disconnection
after_association_disconnect(ok, peer_addr) ==
    IF ok THEN <<ConnectLogItem(peer_addr)>> ELSE <<DisconnectLogItem(peer_addr)>>

\* what the handler sends on the channel once handle_association returned:
\* `.unwrap()` ends the thread on Err before anything is sent
after_association(ok, peer_addr) ==
    IF ok THEN <<ConnectLogItem(peer_addr)>> ELSE <<>>

\* after_packet with the Disconnect item sent twice
after_packet_twice(res, peer_addr) ==
    IF res.ok THEN <<PacketLogItem(peer_addr, res.packet)>>
    ELSE <<DisconnectLogItem(peer_addr), DisconnectLogItem(peer_addr)>>

\* after_packet without the Disconnect item
after_packet_silent(res, peer_addr) ==
    IF res.ok THEN <<PacketLogItem(peer_addr, res.packet)>> ELSE <<>>

\* what the handler sends once handle_packet returned
after_packet(res, peer_addr) ==
    IF res.ok THEN <<PacketLogItem(peer_addr, res.packet)>>
    ELSE <<DisconnectLogItem(peer_addr)>>

\* ------------------------------------------------------------- ww: update
WarnStates == {"None", "Warn", "Alert"}

\* RenderState::new and RenderState::rerender_all
RenderState_new ==
    [focused_mode_changed |-> FALSE, warn_state_changed |-> FALSE,
     packet_log_changed |-> FALSE, clear_background |-> FALSE]
RenderState_rerender_all ==
    [focused_mode_changed |-> TRUE, warn_state_changed |-> TRUE,
     packet_log_changed |-> TRUE, clear_background |-> TRUE]

\* what poll()/read() can hand to one update() call
TermEvents ==
    {"timeout", "q", "ctrl_c", "esc", "r", "f", "other_key", "resize", "other_event"}

\* escalate with Info in the Warn arm
escalate_on_info(warn_state, packet_type) ==
    CASE packet_type = "Alert" -> "Alert"
      [] packet_type \in {"Warn", "Info"} ->
           IF warn_state # "Alert" THEN "Warn" ELSE warn_state
      [] OTHER -> warn_state

\* escalate with the test of the Warn arm left out
escalate_no_test(warn_state, packet_type) ==
    CASE packet_type = "Warn" -> "Warn"
      [] packet_type = "Alert" -> "Alert"
      [] OTHER -> warn_state

\* the escalation state after a packet of the given type (update, the
\* Warn and Alert arms)
escalate(warn_state, packet_type) ==
    CASE packet_type = "Warn" ->
           IF warn_state # "Alert" THEN "Warn" ELSE warn_state
      [] packet_type = "Alert" -> "Alert"
      [] OTHER -> warn_state

\* insert_name that also takes a name of NAME_LIMIT bytes
insert_name_le(peer_names, peer_addr, text) ==
    IF text.some /\ Len(text.val) <= NAME_LIMIT
    THEN (peer_addr :> text.val) @@ peer_names
    ELSE peer_names

\* the name table after a Name packet from peer_addr
insert_name(peer_names, peer_addr, text) ==
    IF text.some /\ Len(text.val) < NAME_LIMIT
    THEN (peer_addr :> text.val) @@ peer_names
    ELSE peer_names

\* remove_name that removes the entries of the other peers
remove_name_other(peer_names, peer_addr) ==
    [a \in (DOMAIN peer_names) \cap {peer_addr} |-> peer_names[a]]

\* remove_name that removes nothing
remove_name_kept(peer_names, peer_addr) == peer_names

\* the name table after a Disconnect of peer_addr: peer_names.remove
remove_name(peer_names, peer_addr) ==
    [a \in (DOMAIN peer_names) \ {peer_addr} |-> peer_names[a]]

\* update_input whose key f toggles focus mode without the flag
update_input_focus_silent(st, rs, ev) ==
    LET st1 == IF ev \in {"q", "ctrl_c", "esc"}
               THEN [st EXCEPT !.window_should_close = TRUE] ELSE st
    IN CASE ev = "r" ->
              [state |-> [st1 EXCEPT !.warn_state = "None"],
               render_state |-> [rs EXCEPT !.warn_state_changed = TRUE]]
         [] ev = "f" ->
              [state |-> [st1 EXCEPT !.is_focused_mode = ~st1.is_focused_mode],
               render_state |-> rs]
         [] ev = "resize" ->
              [state |-> st1, render_state |-> RenderState_rerender_all]
         [] OTHER -> [state |-> st1, render_state |-> rs]

\* update_input whose reset also empties the name table
update_input_reset_clears(st, rs, ev) ==
    IF ev = "r"
    THEN [state |-> [st EXCEPT !.warn_state = "None", !.peer_names = <<>>],
          render_state |-> [rs EXCEPT !.warn_state_changed = TRUE]]
    ELSE [state |-> st, render_state |-> rs]

\* the terminal event part of update(): State and RenderState after it
update_input(st, rs, ev) ==
    LET st1 == IF ev \in {"q", "ctrl_c", "esc"}
               THEN [st EXCEPT !.window_should_close = TRUE] ELSE st
    IN CASE ev = "r" ->
              [state |-> [st1 EXCEPT !.warn_state = "None"],
               render_state |-> [rs EXCEPT !.warn_state_changed = TRUE]]
         [] ev = "f" ->
              [state |-> [st1 EXCEPT !.is_focused_mode = ~st1.is_focused_mode],
               render_state |-> [rs EXCEPT !.focused_mode_changed = TRUE]]
         [] ev = "resize" ->
              [state |-> st1, render_state |-> RenderState_rerender_all]
         [] OTHER -> [state |-> st1, render_state |-> rs]

\* update_item that puts the item at the back of the log
update_item_push_back(st, rs, log_item) ==
    [state |-> [st EXCEPT !.packet_log = @ \o <<log_item>>],
     render_state |-> [rs EXCEPT !.packet_log_changed = TRUE]]

\* update_item that starts the log anew at a Disconnect
update_item_forgets(st, rs, log_item) ==
    [state |-> [st EXCEPT !.packet_log =
                  IF log_item.kind = "Disconnect" THEN <<log_item>>
                  ELSE <<log_item>> \o @],
     render_state |-> [rs EXCEPT !.packet_log_changed = TRUE]]

\* the log item part of update(): State and RenderState after log_item
update_item(st, rs, log_item) ==
    LET st1 ==
          CASE log_item.kind = "Packet" ->
                 IF log_item.packet.packet_type = "Name"
                 THEN [st EXCEPT !.peer_names =
                         insert_name(@, log_item.peer_addr, log_item.packet.text)]
                 ELSE [st EXCEPT !.warn_state =
                         escalate(@, log_item.packet.packet_type)]
            [] log_item.kind = "Disconnect" ->
                 [st EXCEPT !.peer_names = remove_name(@, log_item.peer_addr)]
            [] OTHER -> st
        changed ==
          /\ log_item.kind = "Packet"
          /\ \/ log_item.packet.packet_type = "Alert"
             \/ log_item.packet.packet_type = "Warn" /\ st.warn_state # "Alert"
    IN [state |-> [st1 EXCEPT !.packet_log = <<log_item>> \o @],
        render_state |->
          [rs EXCEPT !.warn_state_changed = @ \/ changed,
                     !.packet_log_changed = TRUE]]

\* ------------------------------------------------------------- ww: render
\* WarnStateAsciiArt::width and ::height of the default art: every art is
\* 7 columns wide; info_art has 3 lines, warn_art 5, alert_art 4
art_width(warn_state) == 7
art_height(warn_state) ==
    CASE warn_state = "None" -> 3
      [] warn_state = "Warn" -> 5
      [] warn_state = "Alert" -> 4

\* `if cols < min_cols || rows < min_rows { .. return Err(..) }`
render_too_small(warn_state, cols, rows) ==
    \/ cols < art_width(warn_state) + 10
    \/ rows < art_height(warn_state) + 10

\* The regions a render() that returns Ok paints: the whole surface under
\* clear_background; the art of the state, by render_warn_state, in every
\* frame; the animated border while Alert, else the border blanked under
\* warn_state_changed; the focus indicator under focused_mode_changed; the
\* history pane under packet_log_changed.
render_regions(st, rs) ==
    (IF rs.clear_background THEN {"clear"} ELSE {})
    \cup {"banner"}
    \cup (IF st.warn_state = "Alert" THEN {"alert_border"}
          ELSE IF rs.warn_state_changed THEN {"border_blank"} ELSE {})
    \cup (IF rs.focused_mode_changed THEN {"focus"} ELSE {})
    \cup (IF rs.packet_log_changed THEN {"history"} ELSE {})

\* render that leaves packet_log_changed as it found it
render_keeps_log_flag(st, rs, cols, rows) ==
    IF render_too_small(st.warn_state, cols, rows)
    THEN [ok |-> FALSE, render_state |-> rs]
    ELSE [ok |-> TRUE,
          render_state |-> [RenderState_new EXCEPT
                              !.packet_log_changed = rs.packet_log_changed]]

\* render() on a terminal of cols x rows: whether it returned Ok, and the
\* RenderState it leaves
render(st, rs, cols, rows) ==
    IF render_too_small(st.warn_state, cols, rows)
    THEN [ok |-> FALSE, render_state |-> rs]
    ELSE [ok |-> TRUE, render_state |-> RenderState_new]

\* main: `render(..)?;` in the UI loop.  An Err leaves main, and with it
\* the process; an Ok goes on to the next turn of the loop.
main_after_render(ok) == IF ok THEN "update" ELSE "exited"

\* -------------------------------------------------- ww: render_packet_log
\* the name-or-address column of a Packet entry
display_peer(log_item, peer_names) ==
    IF log_item.packet.packet_type # "Name" /\ log_item.peer_addr \in DOMAIN peer_names
    THEN peer_names[log_item.peer_addr]
    ELSE log_item.peer_addr

\* ------------------------------------------------- api: Session::connect
\* a request of two zero bytes
ASSOCIATION_REQUEST_zero == <<0, 0>>

\* `let mut buf: [u8; 2] = [1, 0];`, which Session::connect writes
ASSOCIATION_REQUEST == <<1, 0>>

\* Session::connect after its write: rd is the result of reading the reply
\* into the 2-byte buffer.  The test of the reply's bytes only prints.
connect(rd, buf) == ~rd.err /\ rd.n = 2

\* ===================================================================== state
Conns == {1, 2}
\* peer addresses "A" and "B"
Addrs == {<<65>>, <<66>>}

\* texts for Session::send: up to MaxChars characters of 'a', U+00E9 and
\* U+20AC, and texts of 'a' around the longest the library sends
Chars == {<<97>>, <<195, 169>>, <<226, 130, 172>>}
RECURSIVE Strs(_)
Strs(n) == IF n = 0 THEN {<<>>}
           ELSE Strs(n - 1) \cup {s \o ch : s \in Strs(n - 1), ch \in Chars}
Texts == Strs(MaxChars)
    \cup {Rep(97, n) : n \in {MAX_MSG_LEN - 1, MAX_MSG_LEN, MAX_MSG_LEN + 1}}

\* what a client that does not use the library may write first
RawRequests == {<<0, 0>>, <<0, 1>>, <<1, 0>>, <<1, 1>>, <<1>>, <<1, 0, 1, 3>>}
\* and afterwards: length byte 0; unknown kind 9; Info and Name without
\* text; Name "a"
RawFrames == {<<0>>, <<1, 9>>, <<1, 2>>, <<1, 5>>, <<2, 5, 97>>}
\* what the library client sends in Spec: Info "a", Warn, Alert
LibFrames == {<<2, <<97>>>>, <<3, <<>>>>, <<4, <<>>>>}

VARIABLES
    hpc,          \* per connection: where its handler thread is
    peer_addr,    \* per connection: the peer's socket address
    cpc,          \* per connection: where its client is
    wire,         \* per connection: bytes written by the client, in flight
    stream,       \* per connection: bytes arrived, not yet read by the handler
    out,          \* per connection: bytes the server wrote, not yet read
    nbip,         \* per connection: handle_packet's num_bytes_in_packet
    nframes,      \* frames written so far by all clients
    chan,         \* the mpsc channel of LogItems
    state,        \* struct State
    render_state, \* struct RenderState
    highest,      \* history: highest severity update() processed since the last reset
    assoc,        \* history, per connection: the handle_association call
    lastcall,     \* history, per connection: the latest handle_packet call
    emitted,      \* history, per connection: kinds of the items its handler sent
    codec,        \* SpecCodec: a text, what send wrote for it, what handle_packet decoded
    upc,          \* where the UI loop of main is: "update", "render", "exited",
                  \* "panicked"
    listener,     \* the connection manager thread: its position ("binding",
                  \* "listening", "panicked"), its failed accepts;
                  \* history: the failed accepts before the latest accept
    sent          \* history, per connection: the items its handler sent

vars == <<hpc, peer_addr, cpc, wire, stream, out, nbip, nframes, chan, state,
          render_state, highest, assoc, lastcall, emitted, codec, upc,
          listener, sent>>

net_vars == <<hpc, peer_addr, cpc, wire, stream, out, nbip, nframes, assoc,
              lastcall, emitted, listener, sent>>
ui_vars == <<state, render_state, highest, upc>>

NoAssoc == [done |-> FALSE, rd |-> IoErr, buf |-> <<>>, wr_tried |-> FALSE,
            wr |-> IoErr, wrote |-> <<>>, ok |-> FALSE]
NoCall == [done |-> FALSE, buf |-> <<>>, ok |-> FALSE, n_ok |-> 0,
           timed_out |-> FALSE]
CodecIdle == [pc |-> "idle", packet_type |-> 0, msg |-> <<>>,
              sent |-> [ok |-> FALSE, bytes |-> <<>>], res |-> Err("")]

\* main() once the connection manager thread has bound its listener: State
\* and RenderState as constructed, the channel empty, no connection yet
NetInit ==
    /\ hpc = [c \in Conns |-> "none"]
    /\ peer_addr = [c \in Conns |-> <<>>]
    /\ cpc = [c \in Conns |-> "none"]
    /\ wire = [c \in Conns |-> <<>>]
    /\ stream = [c \in Conns |-> <<>>]
    /\ out = [c \in Conns |-> <<>>]
    /\ nbip = [c \in Conns |-> 0]
    /\ nframes = 0
    /\ chan = <<>>
    /\ assoc = [c \in Conns |-> NoAssoc]
    /\ lastcall = [c \in Conns |-> NoCall]
    /\ emitted = [c \in Conns |-> <<>>]
    /\ listener = [pc |-> "listening", errors |-> 0, errors_before |-> 0]
    /\ sent = [c \in Conns |-> <<>>]

UiInit ==
    /\ state = [warn_state |-> "None", window_should_close |-> FALSE,
                packet_log |-> <<>>, peer_names |-> <<>>,
                is_focused_mode |-> FALSE]
    /\ render_state = RenderState_rerender_all
    /\ highest = 0
    /\ upc = "update"

Init == NetInit /\ UiInit /\ codec = CodecIdle

\* the process runs until the UI loop of main ends: `while
\* !state.window_should_close` is false at the head of the loop, or an error
\* of render went up through `?`
Running ==
    /\ upc \notin {"exited", "panicked"}
    /\ ~(upc = "update" /\ state.window_should_close)

\* ================================================================== clients
\* A handler that ends drops its TcpStream: the bytes that arrived unread
\* and those in flight are discarded, and later writes of the client fail.
SocketOpen(c) == hpc[c] \in {"handshaking", "associated", "body"}

\* The listener accepts connection c from address a (main, lines 1218-1221)
\* and handle_connection starts its thread.  An address is free once the
\* client that used it has closed its socket.
AcceptConn(c, a, lib) ==
    /\ Running
    /\ listener.pc = "listening"
    /\ hpc[c] = "none"
    /\ c = 1 => a = <<65>>
    /\ \A d \in Conns : (hpc[d] # "none" /\ peer_addr[d] = a) => cpc[d] = "closed"
    /\ hpc' = [hpc EXCEPT ![c] = "handshaking"]
    /\ peer_addr' = [peer_addr EXCEPT ![c] = a]
    /\ cpc' = [cpc EXCEPT ![c] = IF lib THEN "connect" ELSE "raw_connect"]
    /\ listener' = [listener EXCEPT !.errors_before = listener.errors]
    /\ UNCHANGED <<wire, stream, out, nbip, nframes, chan, assoc, lastcall,
                   emitted, ui_vars, codec, sent>>

\* The same with clients that connect one after the other, the second
\* once the first has closed its socket (the handler of the first may
\* still be running then).
Accept(c, a, lib) ==
    /\ \A d \in Conns : d < c => cpc[d] = "closed"
    /\ AcceptConn(c, a, lib)

\* Session::connect, the write of the association request
SessionConnectWrite(c) ==
    /\ Running
    /\ cpc[c] = "connect"
    /\ wire' = [wire EXCEPT ![c] = @ \o ASSOCIATION_REQUEST]
    /\ cpc' = [cpc EXCEPT ![c] = "wait_accept"]
    /\ UNCHANGED <<hpc, peer_addr, stream, out, nbip, nframes, chan, assoc,
                   lastcall, emitted, ui_vars, codec,
                   listener, sent>>

\* Session::connect, the read of the reply: it returns once the server has
\* written something or has dropped the socket
SessionConnectRead(c) ==
    /\ Running
    /\ cpc[c] = "wait_accept"
    /\ out[c] # <<>> \/ hpc[c] \in {"panicked", "closed"}
    /\ LET rd == IoOk(Min(2, Len(out[c]))) IN
       /\ cpc' = [cpc EXCEPT ![c] =
                    IF connect(rd, Take(out[c], rd.n)) THEN "session" ELSE "closed"]
       /\ out' = [out EXCEPT ![c] = Drop(@, rd.n)]
    /\ UNCHANGED <<hpc, peer_addr, wire, stream, nbip, nframes, chan, assoc,
                   lastcall, emitted, ui_vars, codec,
                   listener, sent>>

\* send_info, send_warn, send_alert of an associated session.  (A write
\* waits until the bytes of the write before it have arrived: TCP keeps
\* the order, so the handler sees the same streams either way.)
SessionSend(c, packet_type, msg, budget) ==
    /\ Running
    /\ cpc[c] = "session"
    /\ wire[c] = <<>>
    /\ SocketOpen(c)
    /\ nframes < budget
    /\ packet_type = 2 => Len(msg) # 0
    /\ LET r == send(packet_type, msg) IN
       wire' = [wire EXCEPT ![c] = IF r.ok THEN @ \o r.bytes ELSE @]
    /\ nframes' = nframes + 1
    /\ UNCHANGED <<hpc, peer_addr, cpc, stream, out, nbip, chan, assoc,
                   lastcall, emitted, ui_vars, codec,
                   listener, sent>>

\* a client that is not the library writes its first bytes
RawConnectWrite(c, bytes) ==
    /\ Running
    /\ cpc[c] = "raw_connect"
    /\ wire' = [wire EXCEPT ![c] = @ \o bytes]
    /\ cpc' = [cpc EXCEPT ![c] = "raw"]
    /\ UNCHANGED <<hpc, peer_addr, stream, out, nbip, nframes, chan, assoc,
                   lastcall, emitted, ui_vars, codec,
                   listener, sent>>

\* and any bytes afterwards
RawWrite(c, bytes, budget) ==
    /\ Running
    /\ cpc[c] = "raw"
    /\ wire[c] = <<>>
    /\ SocketOpen(c)
    /\ nframes < budget
    /\ wire' = [wire EXCEPT ![c] = @ \o bytes]
    /\ nframes' = nframes + 1
    /\ UNCHANGED <<hpc, peer_addr, cpc, stream, out, nbip, chan, assoc,
                   lastcall, emitted, ui_vars, codec,
                   listener, sent>>

\* the client closes its socket
ClientClose(c) ==
    /\ Running
    /\ cpc[c] \notin {"none", "closed"}
    /\ cpc' = [cpc EXCEPT ![c] = "closed"]
    /\ UNCHANGED <<hpc, peer_addr, wire, stream, out, nbip, nframes, chan,
                   assoc, lastcall, emitted, ui_vars, codec,
                   listener, sent>>

\* TCP delivers the next k bytes in flight to the server's socket
Deliver(c, k) ==
    /\ Running
    /\ SocketOpen(c)
    /\ k \in 1..Len(wire[c])
    /\ stream' = [stream EXCEPT ![c] = @ \o Take(wire[c], k)]
    /\ wire' = [wire EXCEPT ![c] = Drop(@, k)]
    /\ UNCHANGED <<hpc, peer_addr, cpc, out, nbip, nframes, chan, assoc,
                   lastcall, emitted, ui_vars, codec,
                   listener, sent>>

\* =========================================================== handler thread
\* What connection.read into a buffer of max bytes can return now: the
\* bytes that have arrived, end of stream once the client has closed and
\* nothing is in flight, or an error of the transport (a reset); if
\* nothing has arrived and the socket has a read timeout, the timeout.
\* Without a timeout a read for which nothing has arrived does not return.
ReadOutcomes(c, max) ==
    {IoErr} \cup
    (IF stream[c] # <<>> THEN {IoOk(Min(max, Len(stream[c])))}
     ELSE IF cpc[c] = "closed" /\ wire[c] = <<>> THEN {IoOk(0)}
     ELSE IF read_timeout(hpc[c]) THEN {IoTimedOut}
     ELSE {})

WriteOutcomes == {IoErr, IoOk(0), IoOk(1), IoOk(2)}

KindsOf(items) == [i \in 1..Len(items) |-> items[i].kind]

\* handle_connection up to the first handle_packet call: handle_association,
\* unwrap, the Connect item
HandleAssociation(c) ==
    /\ Running
    /\ hpc[c] = "handshaking"
    /\ \E rd \in ReadOutcomes(c, 2) :
         LET buf == Take(stream[c], rd.n)
             tried == handle_association(rd, buf, IoOk(2)).ok
         IN \E wr \in (IF tried THEN WriteOutcomes ELSE {IoErr}) :
              LET res == handle_association(rd, buf, wr)
                  items == after_association(res.ok, peer_addr[c])
              IN /\ items # <<>> => ~tx_send_blocks(chan)
                 /\ stream' = [stream EXCEPT ![c] =
                                 IF res.ok THEN Drop(@, rd.n) ELSE <<>>]
                 /\ wire' = [wire EXCEPT ![c] = IF res.ok THEN @ ELSE <<>>]
                 /\ out' = [out EXCEPT ![c] = @ \o res.wrote]
                 /\ hpc' = [hpc EXCEPT ![c] =
                              IF res.ok THEN "associated" ELSE "panicked"]
                 /\ chan' = chan \o items
                 /\ emitted' = [emitted EXCEPT ![c] = @ \o KindsOf(items)]
                 /\ sent' = [sent EXCEPT ![c] = @ \o items]
                 /\ assoc' = [assoc EXCEPT ![c] =
                                [done |-> TRUE, rd |-> rd, buf |-> buf,
                                 wr_tried |-> tried, wr |-> wr,
                                 wrote |-> res.wrote, ok |-> res.ok]]
    /\ UNCHANGED <<peer_addr, cpc, nbip, nframes, lastcall, ui_vars, codec,
                   listener>>

\* handle_packet, the read of the length byte.  An error ends the loop of
\* handle_connection with a Disconnect item.
HandlePacketLen(c) ==
    /\ Running
    /\ hpc[c] = "associated"
    /\ \E rd \in ReadOutcomes(c, 1) :
         LET b0 == IF rd.n = 1 THEN stream[c][1] ELSE 0
             r == handle_packet_len(rd, b0)
             items == IF r.ok THEN <<>>
                      ELSE after_packet(Err(r.err), peer_addr[c])
         IN /\ items # <<>> => ~tx_send_blocks(chan)
            /\ stream' = [stream EXCEPT ![c] = IF r.ok THEN Drop(@, rd.n) ELSE <<>>]
            /\ wire' = [wire EXCEPT ![c] = IF r.ok THEN @ ELSE <<>>]
            /\ nbip' = [nbip EXCEPT ![c] = IF r.ok THEN r.nbip ELSE 0]
            /\ hpc' = [hpc EXCEPT ![c] = IF r.ok THEN "body" ELSE "closed"]
            /\ chan' = chan \o items
            /\ emitted' = [emitted EXCEPT ![c] = @ \o KindsOf(items)]
            /\ sent' = [sent EXCEPT ![c] = @ \o items]
            /\ lastcall' = [lastcall EXCEPT ![c] =
                              IF r.ok THEN @
                              ELSE [done |-> TRUE, buf |-> Take(stream[c], rd.n),
                                    ok |-> FALSE, n_ok |-> @.n_ok,
                                    timed_out |-> rd = IoTimedOut]]
    /\ UNCHANGED <<peer_addr, cpc, out, nframes, assoc, ui_vars, codec,
                   listener>>

\* handle_packet, the read of the rest and the decoding; then the Packet
\* or the Disconnect item of handle_connection
HandlePacketBody(c) ==
    /\ Running
    /\ hpc[c] = "body"
    /\ \E rd \in ReadOutcomes(c, body_read_max(nbip[c])) :
         LET buf == <<nbip[c] - 1>> \o Take(stream[c], rd.n)
             res == handle_packet_body(rd, buf, nbip[c])
             items == after_packet(res, peer_addr[c])
         IN /\ items # <<>> => ~tx_send_blocks(chan)
            /\ stream' = [stream EXCEPT ![c] = IF res.ok THEN Drop(@, rd.n) ELSE <<>>]
            /\ wire' = [wire EXCEPT ![c] = IF res.ok THEN @ ELSE <<>>]
            /\ nbip' = [nbip EXCEPT ![c] = 0]
            /\ hpc' = [hpc EXCEPT ![c] = IF res.ok THEN "associated" ELSE "closed"]
            /\ chan' = chan \o items
            /\ emitted' = [emitted EXCEPT ![c] = @ \o KindsOf(items)]
            /\ sent' = [sent EXCEPT ![c] = @ \o items]
            /\ lastcall' = [lastcall EXCEPT ![c] =
                              [done |-> TRUE, buf |-> buf, ok |-> res.ok,
                               n_ok |-> @.n_ok + (IF res.ok THEN 1 ELSE 0),
                               timed_out |-> rd = IoTimedOut]]
    /\ UNCHANGED <<peer_addr, cpc, out, nframes, assoc, ui_vars, codec,
                   listener>>

\* ================================================================= UI loop
\* severity of a packet type: Alert above Warn above the rest
Severity(packet_type) ==
    CASE packet_type = "Alert" -> 2 [] packet_type = "Warn" -> 1 [] OTHER -> 0

\* The Senders of the channel that have not been dropped: `tx`, which the
\* closure of the connection manager thread owns until that thread ends, and
\* the `tx.clone()` of every handler thread that has not ended.
LiveSenders ==
    (IF listener.pc \in {"binding", "listening"} THEN 1 ELSE 0)
    + Cardinality({c \in Conns : SocketOpen(c)})

\* One update() call of the UI loop: try_recv, then the terminal event,
\* then the log item.  A disconnected channel is a panic of the main thread.
Update(ev) ==
    /\ Running
    /\ upc = "update"
    /\ IF try_recv_disconnected(chan, LiveSenders)
       THEN /\ upc' = "panicked"
            /\ UNCHANGED <<chan, state, render_state, highest>>
       ELSE /\ LET r == try_recv(chan)
                   got == r.item # <<>>
                   a == update_input(state, render_state, ev)
                   b == IF got THEN update_item(a.state, a.render_state, r.item[1])
                        ELSE a
                   after_key == IF ev = "r" THEN 0 ELSE highest
               IN /\ chan' = r.rest
                  /\ state' = b.state
                  /\ render_state' = b.render_state
                  /\ highest' = IF got /\ r.item[1].kind = "Packet"
                                THEN Max(after_key,
                                         Severity(r.item[1].packet.packet_type))
                                ELSE after_key
            /\ upc' = "render"
    /\ UNCHANGED <<net_vars, codec>>

\* The render() call that follows it, on a terminal of cols x rows
Render(cols, rows) ==
    /\ upc = "render"
    /\ LET r == render(state, render_state, cols, rows) IN
       /\ render_state' = r.render_state
       /\ upc' = main_after_render(r.ok)
    /\ UNCHANGED <<net_vars, codec, chan, state, highest>>

\* the connection manager: listener.incoming() yields an error
AcceptError(budget) ==
    /\ Running
    /\ listener.pc = "listening"
    /\ listener.errors < budget
    /\ listener' = [listener EXCEPT !.pc = after_accept_error(@),
                                    !.errors = @ + 1]
    /\ UNCHANGED <<hpc, peer_addr, cpc, wire, stream, out, nbip, nframes,
                   chan, assoc, lastcall, emitted, sent, ui_vars, codec>>

\* the connection manager: TcpListener::bind(..).unwrap().  A failed bind
\* (the port is in use, say) is a panic of the thread, which drops `tx`.
Bind(ok) ==
    /\ Running
    /\ listener.pc = "binding"
    /\ listener' = [listener EXCEPT !.pc = IF ok THEN "listening" ELSE "panicked"]
    /\ UNCHANGED <<hpc, peer_addr, cpc, wire, stream, out, nbip, nframes,
                   chan, assoc, lastcall, emitted, sent, ui_vars, codec>>

\* terminal sizes: one that fits every art, one too low for warn_art only,
\* one too narrow for every art
BigTerm == {<<80, 24>>}
TermSizes == {<<80, 24>>, <<80, 14>>, <<16, 24>>}

\* The whole server with two clients, one after the other, that write the
\* association request and then frames: Warn and Name "a".  Every write
\* arrives whole; no key is pressed.
SysRequests == {<<1, 0>>}
SysFrames == {<<1, 3>>, <<2, 5, 97>>}
SysEvents == {"timeout"}

Next ==
    \/ \E c \in Conns, a \in Addrs : Accept(c, a, FALSE)
    \/ \E c \in Conns, bytes \in SysRequests : RawConnectWrite(c, bytes)
    \/ \E c \in Conns, bytes \in SysFrames : RawWrite(c, bytes, MaxSysFrames)
    \/ \E c \in Conns : ClientClose(c)
    \/ \E c \in Conns : Deliver(c, Len(wire[c]))
    \/ \E c \in Conns : HandleAssociation(c)
    \/ \E c \in Conns : HandlePacketLen(c)
    \/ \E c \in Conns : HandlePacketBody(c)
    \/ \E ev \in SysEvents : Update(ev)
    \/ \E sz \in BigTerm : Render(sz[1], sz[2])

Spec == Init /\ [][Next]_vars

\* One connection, its client the library or not, with every request and
\* frame of RawRequests, RawFrames and LibFrames; the channel is not drained.
NextConn ==
    \/ \E a \in Addrs, lib \in BOOLEAN : Accept(1, a, lib)
    \/ SessionConnectWrite(1)
    \/ SessionConnectRead(1)
    \/ \E f \in LibFrames : SessionSend(1, f[1], f[2], MaxFrames)
    \/ \E bytes \in RawRequests : RawConnectWrite(1, bytes)
    \/ \E bytes \in RawFrames : RawWrite(1, bytes, MaxFrames)
    \/ ClientClose(1)
    \/ \E k \in 1..4 : Deliver(1, k)
    \/ HandleAssociation(1)
    \/ HandlePacketLen(1)
    \/ HandlePacketBody(1)
    \/ AcceptError(MaxAcceptErrors)

SpecConn == Init /\ [][NextConn]_vars

\* One connection and the UI loop with every terminal event; the client
\* writes Warn, Alert, Info "a", Name "a" and a length byte 0.
UiFrames == {<<1, 3>>, <<1, 4>>, <<2, 2, 97>>, <<2, 5, 97>>, <<0>>}

NextUi ==
    \/ \E a \in Addrs : Accept(1, a, FALSE)
    \/ RawConnectWrite(1, ASSOCIATION_REQUEST)
    \/ \E bytes \in UiFrames : RawWrite(1, bytes, MaxFrames)
    \/ ClientClose(1)
    \/ Deliver(1, Len(wire[1]))
    \/ HandleAssociation(1)
    \/ HandlePacketLen(1)
    \/ HandlePacketBody(1)
    \/ \E ev \in TermEvents : Update(ev)
    \/ \E sz \in TermSizes : Render(sz[1], sz[2])

SpecUi == Init /\ [][NextUi]_vars

\* Two connections at the same time, from different addresses, and the UI
\* loop.  A client writes the association request or [0,0] and then
\* frames: Warn, and a length byte 0.  Every write arrives whole.
ParRequests == {<<1, 0>>, <<0, 0>>}
ParFrames == {<<1, 3>>, <<0>>}

NextPar ==
    \/ \E c \in Conns : AcceptConn(c, <<64 + c>>, FALSE)
    \/ \E c \in Conns, bytes \in ParRequests : RawConnectWrite(c, bytes)
    \/ \E c \in Conns, bytes \in ParFrames : RawWrite(c, bytes, MaxParFrames)
    \/ \E c \in Conns : ClientClose(c)
    \/ \E c \in Conns : Deliver(c, Len(wire[c]))
    \/ \E c \in Conns : HandleAssociation(c)
    \/ \E c \in Conns : HandlePacketLen(c)
    \/ \E c \in Conns : HandlePacketBody(c)
    \/ Update("timeout")
    \/ \E sz \in BigTerm : Render(sz[1], sz[2])

SpecPar == Init /\ [][NextPar]_vars

\* One connection whose client writes frames one after the other: Info "a",
\* then Warn with a text of 254 bytes (length byte 255), then Alert, and so
\* on.  A write arrives whole, or its first byte or its first two bytes
\* arrive before the rest.
BackFrame(k) ==
    CASE k % 3 = 1 -> <<2, 2, 97>>
      [] k % 3 = 2 -> <<255, 3>> \o Rep(98, MAX_MSG_LEN)
      [] OTHER -> <<1, 4>>

NextFrames ==
    \/ \E a \in Addrs : Accept(1, a, FALSE)
    \/ RawConnectWrite(1, ASSOCIATION_REQUEST)
    \/ RawWrite(1, BackFrame(nframes + 1), MaxBackFrames)
    \/ ClientClose(1)
    \/ \E k \in {1, 2, Len(wire[1])} : Deliver(1, k)
    \/ HandleAssociation(1)
    \/ HandlePacketLen(1)
    \/ HandlePacketBody(1)

SpecFrames == Init /\ [][NextFrames]_vars

\* One connection and the UI loop; the client writes Name frames: "a", a
\* name of 24 bytes, one of 25 bytes, and one of 9 bytes that are not UTF-8
\* (27 bytes once decoded), and does not close its socket.
NameFrames ==
    {<<2, 5, 97>>,
     <<NAME_LIMIT, 5>> \o Rep(98, NAME_LIMIT - 1),
     <<NAME_LIMIT + 1, 5>> \o Rep(99, NAME_LIMIT),
     <<10, 5>> \o Rep(255, 9)}

NextNames ==
    \/ \E a \in Addrs : Accept(1, a, FALSE)
    \/ RawConnectWrite(1, ASSOCIATION_REQUEST)
    \/ \E bytes \in NameFrames : RawWrite(1, bytes, MaxNameFrames)
    \/ Deliver(1, Len(wire[1]))
    \/ HandleAssociation(1)
    \/ HandlePacketLen(1)
    \/ HandlePacketBody(1)
    \/ Update("timeout")
    \/ \E sz \in BigTerm : Render(sz[1], sz[2])

SpecNames == Init /\ [][NextNames]_vars

\* ------------------------------------------------- render_alert_border
\* frame_number of main starts at the seconds since the Unix epoch and
\* grows by one per frame
FirstFrame == 1794000000
BorderFrames == FirstFrame..(FirstFrame + MaxBorderFrames)
\* terminal sizes as <<cols, rows>>: the smallest on which render() draws
\* the alert art, and a usual one
BorderSizes == {<<17, 14>>, <<80, 24>>}

\* a glyph that also changes with the number of borders drawn before
get_rand_char_drifting(rand) ==
    CASE (rand + Len(codec.calls)) % 7 = 0 -> "#"
      [] (rand + Len(codec.calls)) % 7 = 1 -> "&"
      [] OTHER -> " "

\* get_rand_char: the glyph of a number, a blank from 6 on
get_rand_char(rand) ==
    CASE rand = 0 -> "#"
      [] rand = 1 -> "&"
      [] rand = 2 -> "+"
      [] rand = 3 -> "="
      [] rand = 4 -> "*"
      [] rand = 5 -> "-"
      [] OTHER -> " "

\* queue!(stdout, cursor::MoveTo(x, y), style::Print(c)) under a condition
DrawIf(cond, x, y, c) == IF cond THEN << <<x, y, c>> >> ELSE <<>>

\* the first loop, row y: the eight border cells are blanked
border_blank_row(cols, y) ==
    LET xs == <<0, 1, 2, 3, cols - 4, cols - 3, cols - 2, cols - 1>>
    IN [k \in 1..8 |-> <<xs[k], y, " ">>]

\* the second loop, row y: the streams on the left, those on the right, the
\* bars and the colons; d is frame_number - i
border_row(frame_number, cols, y) ==
    LET i == y
        d == frame_number - i
    IN DrawIf(d % 143 <= 80, 0, y, get_rand_char(d % 11))
       \o DrawIf(d % 223 <= 100, 1, y, get_rand_char(d % 9))
       \o DrawIf(d % 349 <= 180, 2, y, get_rand_char(d % 7))
       \o DrawIf(d % 943 <= 200, 3, y, get_rand_char(d % 12))
       \o DrawIf(d % 139 <= 90, cols, y, get_rand_char(d % 11))
       \o DrawIf(d % 226 <= 130, cols - 1, y, get_rand_char(d % 9))
       \o DrawIf(d % 363 <= 200, cols - 2, y, get_rand_char(d % 7))
       \o DrawIf(d % 927 <= 200, cols - 3, y, get_rand_char(d % 12))
       \o DrawIf((frame_number + i) % 6 < 3, 0, y, "|")
       \o DrawIf((frame_number + i) % 6 < 3, cols, y, "|")
       \o DrawIf((frame_number % 13) + (i % 5) <= 3, 0, y, ":")
       \o DrawIf((frame_number % 13) + (i % 5) <= 3, cols, y, ":")

RECURSIVE border_blank_rows(_, _)
border_blank_rows(cols, rows) ==
    IF rows = 0 THEN <<>>
    ELSE border_blank_rows(cols, rows - 1) \o border_blank_row(cols, rows - 1)

RECURSIVE border_rows(_, _, _)
border_rows(frame_number, cols, rows) ==
    IF rows = 0 THEN <<>>
    ELSE border_rows(frame_number, cols, rows - 1)
         \o border_row(frame_number, cols, rows - 1)

\* the draws render_alert_border queues, in order, as <<x, y, glyph>>, on a
\* terminal of cols x rows
render_alert_border(frame_number, cols, rows) ==
    border_blank_rows(cols, rows) \o border_rows(frame_number, cols, rows)

\* Two calls of render_alert_border, each with a frame number and a terminal
\* size; codec.calls keeps the arguments of each and what it drew.
InitBorder == NetInit /\ UiInit /\ codec = [calls |-> <<>>]

RenderAlertBorder(frame_number, cols, rows) ==
    /\ Len(codec.calls) < 2
    /\ codec' = [codec EXCEPT !.calls =
                   Append(@, [frame_number |-> frame_number, cols |-> cols,
                              rows |-> rows,
                              drawn |-> render_alert_border(frame_number,
                                                            cols, rows)])]
    /\ UNCHANGED <<net_vars, ui_vars, chan>>

NextBorder ==
    \E f \in BorderFrames, sz \in BorderSizes : RenderAlertBorder(f, sz[1], sz[2])

SpecBorder == InitBorder /\ [][NextBorder]_vars

\* --------------------------------------------------- render_warn_state
\* WarnStateAsciiArt::max_width and ::max_height of the default art
art_max_width == Max(art_width("None"), Max(art_width("Warn"), art_width("Alert")))
art_max_height == Max(art_height("None"), Max(art_height("Warn"), art_height("Alert")))

\* a - b on u16: the difference if it is not negative; if it is, a panic
\* in a build with overflow checks and the difference modulo 2^16 in one
\* without
u16_sub(a, b, overflow_checks) ==
    IF a >= b THEN [underflow |-> FALSE, panicked |-> FALSE, val |-> a - b]
    ELSE [underflow |-> TRUE, panicked |-> overflow_checks,
          val |-> IF overflow_checks THEN 0 ELSE (a - b) % 65536]

\* render_warn_state with is_centered false, up to its first queue!: the
\* cell MoveTo is given to start the blanking, on a terminal of cols x rows
render_warn_state_origin(cols, rows, overflow_checks) ==
    LET ascii_min_x == u16_sub(cols \div 2, art_max_width \div 2, overflow_checks)
        ascii_min_y == rows \div 5
        max_horizontal_glitch == 4
        max_vertical_glitch == 3
        x == IF ascii_min_x.panicked THEN ascii_min_x
             ELSE LET d == u16_sub(ascii_min_x.val, max_horizontal_glitch,
                                   overflow_checks)
                  IN [d EXCEPT !.underflow = @ \/ ascii_min_x.underflow]
        y == u16_sub(ascii_min_y, max_vertical_glitch, overflow_checks)
    IN [x |-> x, y |-> y]

\* render() on a terminal of cols x rows that passes its size check in the
\* state warn_state, in a build with or without overflow checks: codec
\* keeps the arguments and the origin render_warn_state computed.
OriginCols == (art_width("None") + 10)..(art_width("None") + 10 + MaxOriginMargin)
OriginRows == (art_height("None") + 10)..(art_height("None") + 10 + MaxOriginMargin)

InitOrigin == NetInit /\ UiInit /\ codec = [pc |-> "idle"]

RenderWarnState(warn_state, cols, rows, overflow_checks) ==
    /\ codec.pc = "idle"
    /\ ~render_too_small(warn_state, cols, rows)
    /\ codec' = [pc |-> "drawn", warn_state |-> warn_state, cols |-> cols,
                 rows |-> rows, overflow_checks |-> overflow_checks,
                 origin |-> render_warn_state_origin(cols, rows, overflow_checks)]
    /\ UNCHANGED <<net_vars, ui_vars, chan>>

NextOrigin ==
    \E warn_state \in WarnStates, cols \in OriginCols, rows \in OriginRows,
       overflow_checks \in BOOLEAN :
        RenderWarnState(warn_state, cols, rows, overflow_checks)

SpecOrigin == InitOrigin /\ [][NextOrigin]_vars

\* main() from the spawn of the connection manager thread, whose bind has
\* not happened yet: one connection whose client writes Warn and a length
\* byte 0, and the UI loop with a timeout or the key q.
InitMain ==
    /\ hpc = [c \in Conns |-> "none"]
    /\ peer_addr = [c \in Conns |-> <<>>]
    /\ cpc = [c \in Conns |-> "none"]
    /\ wire = [c \in Conns |-> <<>>]
    /\ stream = [c \in Conns |-> <<>>]
    /\ out = [c \in Conns |-> <<>>]
    /\ nbip = [c \in Conns |-> 0]
    /\ nframes = 0
    /\ chan = <<>>
    /\ assoc = [c \in Conns |-> NoAssoc]
    /\ lastcall = [c \in Conns |-> NoCall]
    /\ emitted = [c \in Conns |-> <<>>]
    /\ listener = [pc |-> "binding", errors |-> 0, errors_before |-> 0]
    /\ sent = [c \in Conns |-> <<>>]
    /\ UiInit
    /\ codec = CodecIdle

MainFrames == {<<1, 3>>, <<0>>}
MainEvents == {"timeout", "q"}

NextMain ==
    \/ \E ok \in BOOLEAN : Bind(ok)
    \/ \E a \in Addrs : Accept(1, a, FALSE)
    \/ RawConnectWrite(1, ASSOCIATION_REQUEST)
    \/ \E bytes \in MainFrames : RawWrite(1, bytes, MaxFrames)
    \/ ClientClose(1)
    \/ Deliver(1, Len(wire[1]))
    \/ HandleAssociation(1)
    \/ HandlePacketLen(1)
    \/ HandlePacketBody(1)
    \/ \E ev \in MainEvents : Update(ev)
    \/ \E sz \in BigTerm : Render(sz[1], sz[2])

SpecMain == InitMain /\ [][NextMain]_vars

\* One connection whose client writes Warn frames and a malformed one, and
\* the UI loop, which gets timeouts and the key q.  main is one thread that
\* goes from update() to render() and back without waiting for anything
\* longer than the 500 ms of poll, so an update() or a render() that is due
\* is run: weak fairness of both steps.
NextLive ==
    \/ \E a \in Addrs : Accept(1, a, FALSE)
    \/ RawConnectWrite(1, ASSOCIATION_REQUEST)
    \/ \E bytes \in MainFrames : RawWrite(1, bytes, MaxFrames)
    \/ ClientClose(1)
    \/ Deliver(1, Len(wire[1]))
    \/ HandleAssociation(1)
    \/ HandlePacketLen(1)
    \/ HandlePacketBody(1)
    \/ \E ev \in MainEvents : Update(ev)
    \/ \E sz \in BigTerm : Render(sz[1], sz[2])

SpecLive ==
    /\ Init
    /\ [][NextLive]_vars
    /\ WF_vars(\E ev \in MainEvents : Update(ev))
    /\ WF_vars(\E sz \in BigTerm : Render(sz[1], sz[2]))

\* ============================================================== the codec
\* Session::send of one message, then handle_packet on the bytes it wrote,
\* all of them arrived before the handler reads.
CodecInputs ==
    {[pc |-> "input", packet_type |-> tm[1], msg |-> tm[2],
      sent |-> [ok |-> FALSE, bytes |-> <<>>], res |-> Err("")] :
        tm \in {x \in {2, 3, 4} \X Texts : x[1] = 2 => Len(x[2]) # 0}}

InitCodec == NetInit /\ UiInit /\ codec \in CodecInputs

CodecSend ==
    /\ codec.pc = "input"
    /\ codec' = [codec EXCEPT !.pc = "sent",
                              !.sent = send(codec.packet_type, codec.msg)]
    /\ UNCHANGED <<net_vars, chan, ui_vars>>

CodecHandlePacket ==
    /\ codec.pc = "sent"
    /\ codec.sent.ok
    /\ LET bytes == codec.sent.bytes
           r == handle_packet_len(IoOk(1), bytes[1])
           rd == IoOk(Min(r.nbip - 1, Len(bytes) - 1))
           res == IF r.ok
                  THEN handle_packet_body(rd, Take(bytes, 1 + rd.n), r.nbip)
                  ELSE Err(r.err)
       IN codec' = [codec EXCEPT !.pc = "decoded", !.res = res]
    /\ UNCHANGED <<net_vars, chan, ui_vars>>

NextCodec == CodecSend \/ CodecHandlePacket

SpecCodec == InitCodec /\ [][NextCodec]_vars

\* ================================================== the reply to connect
\* Session::connect after its write, on every reply of up to two bytes
\* (and on an error of the read)
ReplyBytes == {0, 1, 2, 3, 127, 128, 254, 255}
ConnectInputs ==
    {[pc |-> "reply", rd |-> IoErr, buf |-> <<>>, conn |-> FALSE]}
    \cup {[pc |-> "reply", rd |-> IoOk(Len(b)), buf |-> b, conn |-> FALSE] :
            b \in {<<>>} \cup {<<x>> : x \in ReplyBytes}
                  \cup {<<x, y>> : x \in ReplyBytes, y \in ReplyBytes}}

InitConnect == NetInit /\ UiInit /\ codec \in ConnectInputs

ConnectRead ==
    /\ codec.pc = "reply"
    /\ codec' = [codec EXCEPT !.pc = "returned",
                              !.conn = connect(codec.rd, codec.buf)]
    /\ UNCHANGED <<net_vars, chan, ui_vars>>

NextConnect == ConnectRead

SpecConnect == InitConnect /\ [][NextConnect]_vars

\* =================================================================== claims
SeverityName(n) == CASE n = 2 -> "Alert" [] n = 1 -> "Warn" [] OTHER -> "None"
IsPacket(item, types) == item.kind = "Packet" /\ item.packet.packet_type \in types
Count(seq, x) == Cardinality({i \in 1..Len(seq) : seq[i] = x})

\* C1: after any sequence of events and resets processed by update(), the
\* escalation state is the highest severity among the packets processed
\* since the last reset: Alert if there was an Alert, else Warn if there was
\* a Warn, else None.
C1_EscalationIsHighestSinceReset ==
    state.warn_state = SeverityName(highest)

\* an Alert and then a Warn were processed, no reset since the Alert
C1_Witness ==
    /\ Len(state.packet_log) >= 2
    /\ IsPacket(state.packet_log[1], {"Warn"})
    /\ IsPacket(state.packet_log[2], {"Alert"})
    /\ highest = 2
    /\ state.warn_state = "Alert"

\* C2: an update() call that handles the 'r' key returns with the
\* escalation state None.
C2_ResetForcesIdle ==
    [][Update("r") => state'.warn_state = "None"]_vars

\* the bytes of a frame that must be rejected
C3_MustReject(buf) ==
    \/ Len(buf) >= 1 /\ buf[1] = 0
    \/ Len(buf) >= 2 /\ buf[2] \notin {2, 3, 4, 5}
    \/ Len(buf) >= 2 /\ buf[2] \in {2, 5} /\ buf[1] = 1

\* C3: handle_packet returns an error for every frame whose length byte is
\* 0, whose kind byte is none of 2..5, or whose kind is Info or Name with
\* no payload, and then no Packet item is sent; every Packet item of kind
\* Info or Name in the channel or the log carries a non-empty text.
C3_MalformedFramesRejected ==
    /\ \A c \in Conns :
         (lastcall[c].done /\ C3_MustReject(lastcall[c].buf)) =>
            /\ ~lastcall[c].ok
            /\ emitted[c][Len(emitted[c])] = "Disconnect"
    /\ \A i \in 1..Len(chan) :
         IsPacket(chan[i], {"Info", "Name"}) =>
            chan[i].packet.text.some /\ Len(chan[i].packet.text.val) > 0
    /\ \A i \in 1..Len(state.packet_log) :
         IsPacket(state.packet_log[i], {"Info", "Name"}) =>
            /\ state.packet_log[i].packet.text.some
            /\ Len(state.packet_log[i].packet.text.val) > 0

\* an Info frame without text was read and rejected
C3_Witness ==
    /\ lastcall[1].done
    /\ lastcall[1].buf = <<1, 2>>
    /\ ~lastcall[1].ok

\* the handler of c has ended with one Disconnect
C4_Closed(c) ==
    /\ hpc[c] = "closed"
    /\ Count(emitted[c], "Disconnect") = 1
    /\ emitted[c][Len(emitted[c])] = "Disconnect"
    /\ Count(emitted[c], "Packet") = lastcall[c].n_ok

\* C4: when handle_packet fails on an associated connection, the handler
\* has sent exactly one Disconnect, as its last item, and as many Packet
\* items as frames were decoded before; it has ended, and sends and reads
\* nothing afterwards.
C4_ErrorEndsHandlerWithOneDisconnect ==
    /\ [](\A c \in Conns : (lastcall[c].done /\ ~lastcall[c].ok) => C4_Closed(c))
    /\ [][\A c \in Conns :
            hpc[c] = "closed" =>
               /\ hpc'[c] = "closed"
               /\ emitted'[c] = emitted[c]
               /\ lastcall'[c] = lastcall[c]
               /\ stream'[c] = stream[c]]_vars

\* a frame failed after one frame had been decoded
C4_Witness ==
    /\ lastcall[1].done
    /\ ~lastcall[1].ok
    /\ lastcall[1].n_ok = 1
    /\ hpc[1] = "closed"

\* C5: a handler whose handle_association failed has sent nothing on the
\* channel, and never does.
C5_FailedHandshakeSendsNothing ==
    \A c \in Conns :
        (assoc[c].done /\ ~assoc[c].ok) =>
            /\ emitted[c] = <<>>
            /\ hpc[c] = "panicked"

\* the request was right and the accept could not be written
C5_Witness ==
    /\ assoc[1].done
    /\ assoc[1].wr_tried
    /\ ~assoc[1].ok
    /\ chan = <<>>

C7_OnlyMagicAssociates ==
    \A c \in Conns :
        (/\ assoc[c].done
         /\ ~assoc[c].rd.err
         /\ assoc[c].rd.n = 2
         /\ assoc[c].buf \notin {<<0, 0>>, ASSOCIATION_REQUEST}) =>
            /\ ~assoc[c].ok
            /\ assoc[c].wrote = <<>>
            /\ hpc[c] = "panicked"

\* C8: what handle_packet decodes from the bytes Session::send wrote is a
\* Packet of the kind and with the text that were sent (no text for "").
C8_RoundTrip ==
    codec.pc = "decoded" =>
        /\ codec.res.ok
        /\ to_type_number(codec.res.packet.packet_type) = codec.packet_type
        /\ codec.res.packet.text =
             (IF codec.msg = <<>> THEN None ELSE Some(codec.msg))

\* the longest text the library sends was decoded
C8_Witness ==
    /\ codec.pc = "decoded"
    /\ Len(codec.msg) = MAX_MSG_LEN
    /\ codec.res.ok

\* C9 as stated: the first byte Session::send writes is the text's length.
C9_LengthByteIsL ==
    (codec.pc # "input" /\ codec.sent.ok) => codec.sent.bytes[1] = Len(codec.msg)

\* C9 as amended: for a text of 0 to 254 bytes the first byte
\* Session::send writes is the text's length plus one, which is the number
\* of bytes it writes after that byte.
C9_LengthByteIsLPlusOne ==
    (codec.pc # "input" /\ Len(codec.msg) <= 254) =>
        /\ codec.sent.ok
        /\ codec.sent.bytes[1] = Len(codec.msg) + 1
        /\ Len(codec.sent.bytes) = codec.sent.bytes[1] + 1

\* a text of 254 bytes was sent with length byte 255
C9_Witness ==
    /\ codec.pc = "sent"
    /\ Len(codec.msg) = 254
    /\ codec.sent.ok
    /\ codec.sent.bytes[1] = 255

\* the places in the log (newest first) of the items of address a that are
\* a Disconnect or a Name packet with a valid name, and the latest of them
C10_Marks(a) ==
    {k \in 1..Len(state.packet_log) :
        LET it == state.packet_log[k] IN
        /\ it.peer_addr = a
        /\ \/ it.kind = "Disconnect"
           \/ /\ IsPacket(it, {"Name"})
              /\ it.packet.text.some
              /\ Len(it.packet.text.val) < NAME_LIMIT}

C10_Latest(a) == CHOOSE k \in C10_Marks(a) : \A m \in C10_Marks(a) : k <= m

LogCap == MaxFrames

\* C11: the length of State.packet_log never exceeds a fixed cap.
C11_PacketLogBounded ==
    Len(state.packet_log) <= LogCap

\* C12: an update() call applies every Warn and Alert item that is in the
\* channel when it starts: none of them is behind the item it takes.
C12_EscalationWithinOneTick ==
    [][(\E ev \in TermEvents : Update(ev)) =>
         \A i \in 2..Len(chan) : ~IsPacket(chan[i], {"Warn", "Alert"})]_vars

\* the items of address a in a sequence of log items, oldest first
FromPeer(seq, a) == SelectSeq(seq, LAMBDA it : it.peer_addr = a)
Reverse(seq) == [i \in 1..Len(seq) |-> seq[Len(seq) + 1 - i]]
IsSuffix(old, new) ==
    /\ Len(old) <= Len(new)
    /\ old = SubSeq(new, Len(new) - Len(old) + 1, Len(new))
\* the step of the handler of c at its position
HandlerStep(c) ==
    \/ HandleAssociation(c)
    \/ HandlePacketLen(c)
    \/ HandlePacketBody(c)
Ended(c) == hpc[c] \in {"panicked", "closed"}

\* C13: a step in which the handler of one connection stops leaves the
\* position, the socket and the items of every other handler as they are;
\* a handler that has not stopped can always take its next step while the
\* process runs, whatever happened to the others; and every step keeps the
\* entries of the packet log (new ones come in front of them).
C13_BadClientIsolated ==
    /\ [](\A c \in Conns : (Running /\ SocketOpen(c)) => ENABLED HandlerStep(c))
    /\ [][\A c \in Conns, d \in Conns :
            (d # c /\ ~Ended(d) /\ Ended(d)') =>
               /\ hpc'[c] = hpc[c]
               /\ stream'[c] = stream[c]
               /\ wire'[c] = wire[c]
               /\ nbip'[c] = nbip[c]
               /\ sent'[c] = sent[c]]_vars
    /\ [][IsSuffix(state.packet_log, state'.packet_log)]_vars

\* the first connection ended on a frame with length byte 0, and the
\* second delivered a Packet that was processed after the first's
\* Disconnect
C13_Witness ==
    /\ hpc[1] = "closed"
    /\ lastcall[1].buf = <<0>>
    /\ SocketOpen(2)
    /\ Len(state.packet_log) >= 2
    /\ IsPacket(state.packet_log[1], {"Warn", "Alert"})
    /\ state.packet_log[1].peer_addr = peer_addr[2]
    /\ \E j \in 2..Len(state.packet_log) :
         state.packet_log[j] = DisconnectLogItem(peer_addr[1])

\* C14: the UI loop does not end on a render() that found the terminal too
\* small.
C14_RenderFailureKeepsLoop ==
    upc # "exited"

\* C15: handle_packet does not fail on a read that returned some, not all,
\* of the bytes of a frame with a valid type number.
C15_SplitFrameDecoded ==
    \A c \in Conns :
        (/\ lastcall[c].done
         /\ Len(lastcall[c].buf) >= 2
         /\ Len(lastcall[c].buf) < lastcall[c].buf[1] + 1
         /\ lastcall[c].buf[2] \in {2, 3, 4, 5}) =>
            lastcall[c].ok

\* C16: after any number of failed accepts the connection manager is still
\* in its loop, and accepts a connection that comes in.
C16_AcceptErrorKeepsListener ==
    /\ listener.pc = "listening"
    /\ (Running /\ hpc[1] = "none") => ENABLED AcceptConn(1, <<65>>, TRUE)

\* a connection was accepted after two failed accepts and is associated
C16_Witness ==
    /\ listener.errors_before >= 2
    /\ hpc[1] = "associated"
    /\ sent[1] = <<ConnectLogItem(<<65>>)>>

\* C17: Session::connect returns Ok only for the reply [1,1].
C17_OnlyAcceptReplyConnects ==
    (codec.pc = "returned" /\ codec.conn) => codec.buf = ASSOCIATION_ACCEPT

\* C18: an update() call that handles the 'r' key leaves the packet log
\* and the name table as the call's log item alone makes them (unchanged
\* when it took none), and the key's part of the call changes nothing but
\* warn_state and warn_state_changed.
C18_ResetFrame ==
    [][Update("r") =>
         LET k == update_input(state, render_state, "r")
             alone == IF chan = <<>> THEN state
                      ELSE update_item(state, render_state, Head(chan)).state
         IN /\ k.state = [state EXCEPT !.warn_state = "None"]
            /\ k.render_state = [render_state EXCEPT !.warn_state_changed = TRUE]
            /\ state'.packet_log = alone.packet_log
            /\ state'.peer_names = alone.peer_names]_vars

\* a reset came after a Warn and a Name packet: the log holds both, the
\* name is in the table, the state is None
C18_Witness ==
    /\ highest = 0
    /\ state.warn_state = "None"
    /\ \E i \in 1..Len(state.packet_log) : IsPacket(state.packet_log[i], {"Warn"})
    /\ \E i \in 1..Len(state.packet_log) : IsPacket(state.packet_log[i], {"Name"})
    /\ DOMAIN state.peer_names # {}

\* C19: for every connection, the items of its address that update() has
\* processed, in the order it processed them, followed by those of its
\* address still in the channel, are the items its handler sent, in the
\* order it sent them.
C19_PerProducerFifo ==
    \A c \in Conns :
        hpc[c] # "none" =>
            FromPeer(Reverse(state.packet_log), peer_addr[c])
               \o FromPeer(chan, peer_addr[c]) = sent[c]

\* both handlers sent a Connect and a Packet, the four were processed with
\* the two connections' items interleaved, and a third item waits
C19_Witness ==
    /\ Len(state.packet_log) >= 4
    /\ state.packet_log[1].kind = "Packet"
    /\ state.packet_log[2].kind = "Packet"
    /\ state.packet_log[1].peer_addr # state.packet_log[2].peer_addr
    /\ state.packet_log[3].peer_addr # state.packet_log[4].peer_addr
    /\ chan # <<>>

\* C20: while the process runs, a handler that has not ended can take its
\* next step whatever the channel holds, and the UI loop can take its
\* update() step whatever the handlers do, also on an empty channel.
C20_NoDeadlock ==
    /\ \A c \in Conns : (Running /\ SocketOpen(c)) => ENABLED HandlerStep(c)
    /\ (Running /\ upc = "update") => ENABLED Update("timeout")
    /\ (Running /\ upc = "render") => ENABLED Render(80, 24)

\* items wait in the channel and a handler, its frame arrived, is about to
\* send one more
C20_Witness ==
    /\ Len(chan) >= 3
    /\ \E c \in Conns : hpc[c] = "body" /\ stream[c] # <<>>

\* C21: while the UI loop runs the channel has a live sender, so update()
\* never finds the channel disconnected and never takes its panic branch
C21_ChannelNeverDisconnected == upc # "panicked"

\* the cells a call drew, each with the glyphs drawn there
Glyphs(drawn) == {drawn[k] : k \in 1..Len(drawn)}

C23_Shape(s) ==
    /\ s # <<>> => s[1].kind = "Connect"
    /\ \A i \in 2..Len(s) : s[i].kind \in {"Packet", "Disconnect"}
    /\ \A i \in 1..(Len(s) - 1) : s[i].kind # "Disconnect"

\* C23: what a handler sends is Connect, then Packets, then one Disconnect,
\* or a prefix of that while it runs: Connect is its first item and is sent
\* only after handle_association succeeded, a handler that is in its packet
\* loop has sent Connect and no Disconnect, one that left the loop has sent
\* exactly one Disconnect, and nothing is sent after the Disconnect
C23_HandlerEventSequence ==
    /\ [](\A c \in Conns :
            /\ C23_Shape(sent[c])
            /\ sent[c] # <<>> => assoc[c].done /\ assoc[c].ok
            /\ hpc[c] \in {"associated", "body"}
               => sent[c] # <<>> /\ sent[c][Len(sent[c])].kind # "Disconnect"
            /\ hpc[c] = "closed"
               => Len(sent[c]) >= 2 /\ sent[c][Len(sent[c])].kind = "Disconnect"
            /\ hpc[c] \in {"none", "handshaking", "panicked"} => sent[c] = <<>>)
    /\ [][\A c \in Conns :
            /\ IsSuffix(Reverse(sent[c]), Reverse(sent'[c]))
            /\ (sent[c] # <<>> /\ sent[c][Len(sent[c])].kind = "Disconnect")
               => sent'[c] = sent[c]]_vars

\* a handler that sent Connect, two Packets and the Disconnect, and ended
C23_Witness ==
    /\ hpc[1] = "closed"
    /\ Len(sent[1]) = 4
    /\ sent[1][2].kind = "Packet"
    /\ sent[1][3].kind = "Packet"
    /\ sent[1][4].kind = "Disconnect"

\* the Packet item a handler sends for the frame, read whole
C24_PacketOf(frame, a) ==
    PacketLogItem(a, handle_packet_body(IoOk(Len(frame) - 1), frame,
                                        Len(frame)).packet)

\* the Packet items among s
C24_Packets(s) == SelectSeq(s, LAMBDA it : it.kind = "Packet")

\* C24: a handle_packet call that read the length byte N takes at most N + 1
\* bytes from the stream, and exactly N + 1 when it returns a Packet (256
\* for N = 255), leaving the bytes that follow in the stream; the Packets a
\* handler sent are those of the first frames written, one per frame and in
\* the order written, and all of them once every byte written is consumed
C24_NeverReadsPastFrame ==
    /\ [](/\ (lastcall[1].done /\ lastcall[1].buf # <<>>)
              => Len(lastcall[1].buf) <= lastcall[1].buf[1] + 1
           /\ \E m \in 0..nframes :
                /\ C24_Packets(sent[1])
                   = [k \in 1..m |-> C24_PacketOf(BackFrame(k), peer_addr[1])]
                /\ (hpc[1] = "associated" /\ cpc[1] = "raw"
                    /\ wire[1] = <<>> /\ stream[1] = <<>>) => m = nframes)
    /\ [][(hpc[1] = "associated" /\ hpc'[1] = "body")
           => stream'[1] = Tail(stream[1])]_vars
    /\ [][(hpc[1] = "body" /\ hpc'[1] = "associated")
           => /\ stream'[1] = Drop(stream[1], nbip[1] - 1)
              /\ Len(lastcall'[1].buf) = nbip[1]
              /\ lastcall'[1].buf = <<nbip[1] - 1>> \o Take(stream[1], nbip[1] - 1)]_vars

\* a call that read the length byte 255 and 255 more bytes while the Alert
\* frame was already behind them in the stream, and returned the second
\* Packet
C24_Witness ==
    /\ hpc[1] = "associated"
    /\ lastcall[1].done /\ lastcall[1].ok
    /\ Len(lastcall[1].buf) = 256
    /\ stream[1] = <<1, 4>>
    /\ Len(C24_Packets(sent[1])) = 2
    /\ C24_Packets(sent[1])[2].packet.packet_type = "Warn"

\* C25: when update() processes a Name packet of peer a whose text has
\* fewer than 25 bytes, the name table afterwards maps a to that text and is
\* unchanged for every other peer; when the text has 25 bytes or more the
\* table is unchanged (the text is the decoded one, its length that of its
\* UTF-8 bytes)
C25_NameOnlyIfShort ==
    [][(/\ upc = "update" /\ upc' = "render"
        /\ chan # <<>>
        /\ Head(chan).kind = "Packet"
        /\ Head(chan).packet.packet_type = "Name")
       => LET t == Head(chan).packet.text.val
              a == Head(chan).peer_addr
              old == state.peer_names
              new == state'.peer_names
          IN IF Len(t) < 25
             THEN /\ DOMAIN new = DOMAIN old \cup {a}
                  /\ new[a] = t
                  /\ \A b \in DOMAIN old \ {a} : new[b] = old[b]
             ELSE new = old]_vars

\* the peer named itself "a", then with 24 bytes, then with 25: the table
\* holds the name of 24 bytes
C25_Witness ==
    /\ Len(state.packet_log) = 4
    /\ \A i \in 1..3 : state.packet_log[i].kind = "Packet"
    /\ state.packet_log[3].packet.text = Some(<<97>>)
    /\ state.packet_log[2].packet.text = Some(Rep(98, 24))
    /\ state.packet_log[1].packet.text = Some(Rep(99, 25))
    /\ state.peer_names = (peer_addr[1] :> Rep(98, 24))

\* the item update() is about to take is a Warn or an Alert packet
C26_Escalating(ch) ==
    /\ ch # <<>>
    /\ Head(ch).kind = "Packet"
    /\ Head(ch).packet.packet_type \in {"Warn", "Alert"}

\* C26: an update() that processes a Connect, a Disconnect, an Info packet,
\* a Name packet or no item leaves warn_state as it was, unless the key r
\* reset it to None in the same call; warn_state becomes Warn or Alert only
\* in a call that processes a Warn or an Alert packet, and no other step
\* changes it
C26_OnlyWarnAlertResetChange ==
    /\ [][(upc = "update" /\ upc' = "render" /\ ~C26_Escalating(chan))
           => state'.warn_state \in {state.warn_state, "None"}]_vars
    /\ [][state'.warn_state # state.warn_state
           => /\ upc = "update" /\ upc' = "render"
              /\ state'.warn_state # "None"
                 => /\ C26_Escalating(chan)
                    /\ state'.warn_state \in {"Warn", "Alert"}]_vars

\* a Warn, then an Info packet and the Disconnect were processed, and the
\* state is still Warn
C26_Witness ==
    /\ state.warn_state = "Warn"
    /\ Len(state.packet_log) = 4
    /\ state.packet_log[1].kind = "Disconnect"
    /\ IsPacket(state.packet_log[2], {"Info"})
    /\ IsPacket(state.packet_log[3], {"Warn"})
    /\ state.packet_log[4].kind = "Connect"

\* C27: an update() that takes an item puts it in front of packet_log and
\* leaves the entries behind it as they were, no other step changes
\* packet_log, and so packet_log, read from its back to its front and
\* followed by the items still in the channel, is what the handler sent:
\* the processed items, most recent first
C27_HistoryMostRecentFirst ==
    /\ [](Reverse(state.packet_log) \o chan = sent[1])
    /\ [][IF upc = "update" /\ upc' = "render" /\ chan # <<>>
          THEN state'.packet_log = <<Head(chan)>> \o state.packet_log
          ELSE state'.packet_log = state.packet_log]_vars

\* Connect, a Warn packet and an Alert packet were sent and processed in
\* that order: the Alert is in front, the Connect at the back
C27_Witness ==
    /\ chan = <<>>
    /\ Len(state.packet_log) = 3
    /\ IsPacket(state.packet_log[1], {"Alert"})
    /\ IsPacket(state.packet_log[2], {"Warn"})
    /\ state.packet_log[3].kind = "Connect"
    /\ sent[1] = Reverse(state.packet_log)

\* C28: if the name table has an entry for an address then the log (the
\* processed items, newest first) holds a Name packet of that address with
\* no Disconnect of the address in front of it; in the state an update()
\* leaves after it took a Disconnect of an address, and as long as that
\* Disconnect is the newest item of the log, the table has no entry for the
\* address
C28_NameTableInvariant ==
    /\ [](\A a \in DOMAIN state.peer_names :
            \E i \in 1..Len(state.packet_log) :
                /\ IsPacket(state.packet_log[i], {"Name"})
                /\ state.packet_log[i].peer_addr = a
                /\ \A j \in 1..(i - 1) :
                      ~(/\ state.packet_log[j].kind = "Disconnect"
                        /\ state.packet_log[j].peer_addr = a))
    /\ []((state.packet_log # <<>> /\ state.packet_log[1].kind = "Disconnect")
           => state.packet_log[1].peer_addr \notin DOMAIN state.peer_names)
    /\ [][(/\ upc = "update" /\ upc' = "render"
            /\ chan # <<>> /\ Head(chan).kind = "Disconnect")
           => Head(chan).peer_addr \notin DOMAIN state'.peer_names]_vars

\* a peer named itself and disconnected, which emptied the table; the next
\* connection from the same address named itself, and the table has the
\* entry again
C28_Witness ==
    \E a \in Addrs :
        /\ a \in DOMAIN state.peer_names
        /\ Len(state.packet_log) >= 4
        /\ IsPacket(state.packet_log[1], {"Name"})
        /\ state.packet_log[1].peer_addr = a
        /\ \E j \in 2..Len(state.packet_log) :
             /\ state.packet_log[j].kind = "Disconnect"
             /\ state.packet_log[j].peer_addr = a
             /\ \E n \in (j + 1)..Len(state.packet_log) :
                  /\ IsPacket(state.packet_log[n], {"Name"})
                  /\ state.packet_log[n].peer_addr = a

\* C29: a render() call that returns Ok (the UI loop goes on to its next
\* update) leaves focused_mode_changed, warn_state_changed,
\* packet_log_changed and clear_background all false
C29_FlagsClearedByRender ==
    [][(upc = "render" /\ upc' = "update")
       => /\ ~render_state'.focused_mode_changed
          /\ ~render_state'.warn_state_changed
          /\ ~render_state'.packet_log_changed
          /\ ~render_state'.clear_background]_vars

\* focus mode was toggled and an Alert packet processed, which set three
\* flags, and the render() after that returned Ok
C29_Witness ==
    /\ upc = "update"
    /\ state.is_focused_mode
    /\ state.warn_state = "Alert"
    /\ Len(state.packet_log) = 2
    /\ IsPacket(state.packet_log[1], {"Alert"})
    /\ render_state = RenderState_new

\* C30: the State a render() draws differs from the State of the frame
\* before only by what the one update() between them did, and that update()
\* leaves warn_state_changed set if it changed warn_state,
\* packet_log_changed set if it changed packet_log or peer_names, and
\* focused_mode_changed set if it toggled is_focused_mode; render() does not
\* change State, and no step but a render() that returns Ok clears a flag
C30_MutationsSetFlags ==
    /\ [][(upc = "update" /\ upc' = "render")
           => /\ state'.warn_state # state.warn_state
                 => render_state'.warn_state_changed
              /\ (\/ state'.packet_log # state.packet_log
                  \/ state'.peer_names # state.peer_names)
                 => render_state'.packet_log_changed
              /\ state'.is_focused_mode # state.is_focused_mode
                 => render_state'.focused_mode_changed]_vars
    /\ [][~(upc = "update" /\ upc' = "render") => state' = state]_vars
    /\ [][~(upc = "render" /\ upc' = "update")
           => /\ render_state.warn_state_changed
                 => render_state'.warn_state_changed
              /\ render_state.packet_log_changed
                 => render_state'.packet_log_changed
              /\ render_state.focused_mode_changed
                 => render_state'.focused_mode_changed]_vars

\* after a rendered frame, one update() got the key f and took a Warn
\* packet: the state is Warn, focus mode is on, and the three flags are set
\* for the render() to come
C30_Witness ==
    /\ upc = "render"
    /\ state.warn_state = "Warn"
    /\ state.is_focused_mode
    /\ state.packet_log # <<>>
    /\ IsPacket(state.packet_log[1], {"Warn"})
    /\ render_state = [RenderState_rerender_all EXCEPT !.clear_background = FALSE]

\* C31: a render() that returns Ok paints the art of the state only if
\* warn_state_changed is set, the history pane only if packet_log_changed
\* is set, and the focus indicator only if focused_mode_changed is set
C31_RepaintOnlyWhenDirty ==
    [][(upc = "render" /\ upc' = "update")
       => LET painted == render_regions(state, render_state)
          IN /\ "banner" \in painted => render_state.warn_state_changed
             /\ "history" \in painted => render_state.packet_log_changed
             /\ "focus" \in painted => render_state.focused_mode_changed]_vars

\* the handler of c has associated, its client has not closed, and nothing
\* of the client has arrived or is in flight
C32_Idle(c) ==
    /\ hpc[c] \in {"associated", "body"}
    /\ cpc[c] # "closed"
    /\ stream[c] = <<>>
    /\ wire[c] = <<>>

\* C32: once associated a connection has no read deadline: no handle_packet
\* call ends by a timeout, and for a peer that is idle the read of its
\* handler returns only if the transport fails, so that short of such a
\* failure the handler stays in its loop and sends no Disconnect
C32_NoDeadlineOnceAssociated ==
    /\ [](\A c \in Conns :
            /\ ~lastcall[c].timed_out
            /\ C32_Idle(c)
               => /\ ReadOutcomes(c, 1) = {IoErr}
                  /\ ReadOutcomes(c, body_read_max(nbip[c])) = {IoErr}
                  /\ \A i \in 1..Len(sent[c]) : sent[c][i].kind # "Disconnect")
    /\ [][\A c \in Conns :
            (C32_Idle(c) /\ hpc'[c] \notin {"associated", "body"})
            => /\ hpc'[c] = "closed"
               /\ lastcall'[c].done /\ ~lastcall'[c].ok
               /\ ~lastcall'[c].timed_out]_vars

\* a peer that associated, sent a frame that was decoded, and is idle
C32_Witness ==
    /\ C32_Idle(1)
    /\ hpc[1] = "associated"
    /\ lastcall[1].n_ok = 1
    /\ Len(sent[1]) = 2

\* C33: when handle_association runs on a first transmission that has
\* arrived whole and is not 2 bytes long, the handler ends without sending
\* anything; and as long as the client has written nothing but its first
\* transmission no Packet is sent, since a first transmission of 2 bytes
\* leaves nothing to decode and any other is dropped
C33_WrongSizeRequestDropped ==
    /\ [][\A c \in Conns :
            (/\ hpc[c] = "handshaking" /\ hpc'[c] # "handshaking"
             /\ cpc[c] = "raw" /\ nframes = 0 /\ wire[c] = <<>>
             /\ Len(stream[c]) # 2)
            => hpc'[c] = "panicked" /\ sent'[c] = <<>>]_vars
    /\ [](nframes = 0
           => \A c \in Conns :
                \A i \in 1..Len(sent[c]) : sent[c][i].kind # "Packet")

\* the Name packets of address a among s
C34_Names(s, a) ==
    SelectSeq(s, LAMBDA it : IsPacket(it, {"Name"}) /\ it.peer_addr = a)

\* C34: connection 2 comes after connection 1.  If it is live (its socket
\* is open on both sides and its handler has sent no Disconnect) and a Name
\* packet it sent has been processed (the log holds more Name packets of
\* its address than connection 1 sent from that address), the name table
\* has an entry for its address, whatever connection 1 from the same
\* address did
C34_LaterNameSurvivesEarlierDisconnect ==
    LET a == peer_addr[2]
        earlier == IF peer_addr[1] = a THEN Len(C34_Names(sent[1], a)) ELSE 0
    IN (/\ SocketOpen(2)
        /\ cpc[2] # "closed"
        /\ \A i \in 1..Len(sent[2]) : sent[2][i].kind # "Disconnect"
        /\ Len(C34_Names(state.packet_log, a)) > earlier)
       => a \in DOMAIN state.peer_names

\* the client of c is inside Session::connect or holds its Session
C35_Library(c) == cpc[c] \in {"wait_accept", "session"}

\* C35: for a client of the library, a handle_association that read the two
\* bytes of the request goes on to write the accept, and if that write is
\* whole it returns Ok and Connect is the handler's first item; the read of
\* Session::connect that follows an Ok of handle_association returns the
\* Session; and a client holds a Session only if the handler associated on
\* the request of the library
C35_LibraryAssociates ==
    /\ [](\A c \in Conns :
            /\ (C35_Library(c) /\ assoc[c].done /\ assoc[c].rd = IoOk(2))
               => /\ assoc[c].buf = ASSOCIATION_REQUEST
                  /\ assoc[c].wr_tried
                  /\ assoc[c].wr = IoOk(2)
                     => /\ assoc[c].ok
                        /\ sent[c] # <<>> /\ sent[c][1].kind = "Connect"
            /\ cpc[c] = "session"
               => /\ assoc[c].ok /\ assoc[c].buf = ASSOCIATION_REQUEST
                  /\ sent[c] # <<>>)
    /\ [][\A c \in Conns :
            (/\ cpc[c] = "wait_accept" /\ assoc[c].ok
             /\ Len(out'[c]) < Len(out[c]))
            => cpc'[c] = "session"]_vars

\* Session::connect has returned the Session and the handler is in its
\* loop, Connect sent
C35_Witness ==
    /\ cpc[1] = "session"
    /\ hpc[1] = "associated"
    /\ assoc[1].buf = <<1, 0>>
    /\ assoc[1].wrote = <<1, 1>>
    /\ out[1] = <<>>
    /\ sent[1] = <<ConnectLogItem(peer_addr[1])>>

\* the most items one handler sends in a run of SpecLive: Connect, a Packet
\* per frame, Disconnect
C36_MaxItems == MaxFrames + 2

\* C36: if the UI loop never ends, the n-th item the handler sent, whatever
\* is queued ahead of it, is in the end the n-th item processed: it is in
\* packet_log, n-th from the back
C36_SentIsEventuallyLogged ==
    ([]Running)
    => \A n \in 1..C36_MaxItems :
         (Len(sent[1]) >= n)
         ~> (/\ Len(state.packet_log) >= n
             /\ Reverse(state.packet_log)[n] = sent[1][n])

\* the handler has sent its four items and all four are in the log, in the
\* order sent
C36_Witness ==
    /\ Len(sent[1]) = 4
    /\ chan = <<>>
    /\ Reverse(state.packet_log) = sent[1]
    /\ ~state.window_should_close

\* C37: when the size check of render() passes, neither subtraction of the
\* blanking origin of render_warn_state goes below zero
C37_OriginDoesNotUnderflow ==
    codec.pc = "drawn"
    => /\ ~codec.origin.x.underflow
       /\ ~codec.origin.y.underflow

====
